---- MODULE Spec2Model ----
(***************************************************************************)
(* Live-Sensex (src/main.py): a Flask-SocketIO server on eventlet.         *)
(*   - fetch_and_emit_indices: background loop polling two indices and     *)
(*     emitting 'indices_update' to all connected clients every 15 s;      *)
(*   - handle_connect / handle_disconnect: socket event handlers, the      *)
(*     first of which spawns the loop when thread_running is False;        *)
(*   - get_indian_stock_performance_route: GET /stock, the sorted          *)
(*     snapshot of an equities basket.                                     *)
(*                                                                         *)
(* Numbers.  Prices are integers in mills (0.001).  A Python float is a    *)
(* record [neg, mag, inf]: sign bit, magnitude in hundredths, and the      *)
(* -inf flag; the sign bit is kept so that negative zero (round() of a     *)
(* small negative number) prints as "-0.0" as it does in Python.           *)
(* round(x, 2) is round-half-even on the exact decimal value.              *)
(* Absence (Python None / a missing dict key) is the empty tuple <<>>, a   *)
(* present value v is <<v>>.                                               *)
(* Every value of a published entry is the string Python prints for it     *)
(* ("252.0", "None", "N/A", "nan", "+0.8%").                               *)
(***************************************************************************)
EXTENDS Integers, Sequences, FiniteSets, TLC

\* ------------------------------------------------------------- bounds ----
\* Poller tasks that can be spawned (start_background_task calls).
MaxTasks == 2
\* Socket clients.
MaxSubs == 2
\* Symbols of the equities basket a snapshot request iterates (a prefix of
\* the basket of src/main.py:134-145).
MaxSymbols == 3

\* ------------------------------------------------------- static data ----
\* index_symbols, in dict (insertion) order: <<name, symbol>>.
index_symbols == << <<"Sensex", "^BSESN">>, <<"Nifty 50", "^NSEI">> >>

all_symbols ==
    << "RELIANCE.NS", "TCS.NS", "HDFCBANK.NS", "ICICIBANK.NS", "INFY.NS",
       "SBIN.NS", "MARUTI.NS", "ASIANPAINT.BO", "TITAN.BO", "AMZN" >>

Min(a, b) == IF a < b THEN a ELSE b

symbols == SubSeq(all_symbols, 1, Min(MaxSymbols, Len(all_symbols)))

\* ----------------------------------------------------------- numbers ----
Abs(n) == IF n < 0 THEN -n ELSE n

Float(neg, mag) == [neg |-> neg, mag |-> mag, inf |-> FALSE]

\* -float('inf')
NegInf == [neg |-> TRUE, mag |-> 0, inf |-> TRUE]

\* the int 0 of `change_numeric = 0`
Zero == Float(FALSE, 0)

\* n / k for n >= 0, k > 0, rounded to the nearest integer, ties to even.
RoundHalfEven(n, k) ==
    LET q == n \div k
        r == n % k
    IN  IF 2 * r < k THEN q
        ELSE IF 2 * r > k THEN q + 1
        ELSE IF q % 2 = 0 THEN q ELSE q + 1

\* a > 0 on floats (negative zero is not > 0).
Positive(f) == ~f.inf /\ ~f.neg /\ f.mag > 0

\* a < b on floats; -inf is below every finite value, -0.0 equals 0.0.
Value(f) == IF f.neg THEN -f.mag ELSE f.mag
Less(a, b) ==
    IF a.inf THEN ~b.inf
    ELSE IF b.inf THEN FALSE
    ELSE Value(a) < Value(b)

\* The digits after the decimal point of r / scale (0 <= r < scale), without
\* trailing zeros.
RECURSIVE FracDigits(_, _)
FracDigits(r, scale) ==
    IF r = 0 THEN ""
    ELSE ToString((r * 10) \div scale) \o FracDigits((r * 10) % scale, scale)

\* str() of the float mag / scale with sign bit neg: "252.0", "-0.8", "-0.0".
Repr(neg, mag, scale) ==
    LET frac == FracDigits(mag % scale, scale)
    IN  (IF neg THEN "-" ELSE "") \o ToString(mag \div scale) \o "."
        \o (IF frac = "" THEN "0" ELSE frac)

\* ------------------------------------------------------- the transform ---
Present(x) == x # <<>>

\* str(current_price): a price in mills, or None.
PriceStr(cur) == IF Present(cur) THEN Repr(FALSE, cur[1], 1000) ELSE "None"

\* current_price is not None and previous_close is not None and previous_close != 0
HasBoth(cur, prev) == Present(cur) /\ Present(prev) /\ prev[1] # 0

\* change = round(current_price - previous_close, 2), in hundredths.
Change(cur, prev) ==
    LET d == cur[1] - prev[1]
    IN  Float(d < 0, RoundHalfEven(Abs(d), 10))

\* change_percent = round((change / previous_close) * 100, 2), in hundredths
\* of a percent: change is in hundredths and previous_close in mills.
ChangePercent(cur, prev) ==
    LET c == Change(cur, prev)
    IN  Float(c.neg # (prev[1] < 0),
              RoundHalfEven(c.mag * 100000, Abs(prev[1])))

\* Fault variant of FormatPercent: the test written `>= 0`.
FormatPercentGE(cp) ==
    (IF ~cp.neg THEN "+" ELSE "") \o Repr(cp.neg, cp.mag, 100) \o "%"

\* f"{'+' if change_percent > 0 else ''}{change_percent}%"
FormatPercent(cp) ==
    (IF Positive(cp) THEN "+" ELSE "") \o Repr(cp.neg, cp.mag, 100) \o "%"

\* ------------------------------------------------- fetch outcomes -------
\* What `yf.Ticker(symbol).info` gives: ok = FALSE when it raises, else the
\* price fields of the info dict (the price key is 'regularMarketPrice' in
\* the poller and 'currentPrice' in the snapshot route) and 'longName'.
Info(cur, prev, longName) ==
    [ok |-> TRUE, cur |-> cur, prev |-> prev, longName |-> longName]

FetchError == [ok |-> FALSE, cur |-> <<>>, prev |-> <<>>, longName |-> <<>>]

\* One quote, for the runs where only the control flow matters (no branch
\* of the control flow depends on what a fetch returns).
Quote == Info(<<252000>>, <<250000>>, <<"Co">>)

\* A fetch that returns the quote, and one that raises.
CoarseOutcomes == {FetchError, Quote}

\* Outcomes covering every branch of the transform and every sign of the
\* change and of the rounded percent change.
Outcomes ==
    {FetchError,
     Info(<<>>, <<>>, <<>>),
     Info(<<>>, <<250000>>, <<"Co">>),
     Info(<<250000>>, <<>>, <<"Co">>),
     Info(<<250000>>, <<0>>, <<"Co">>)}
    \cup {Info(<<c>>, <<250000>>, <<"Co">>) :
            c \in {248000, 249990, 249996, 250000, 250010, 252000}}

\* ------------------------------------------------------ poller entries --
ChangeStr(c) == Repr(c.neg, c.mag, 100)

Entry(name, symbol, price, change, pct) ==
    [Name |-> name, Symbol |-> symbol, Price |-> price, Change |-> change]
    @@ ("Change %" :> pct)

\* Lines 48-89: the body of the for loop for one symbol, given what the
\* fetch did; the value appended to indices_data.
IndexEntry(name, symbol, o) ==
    IF ~o.ok
    THEN Entry(name, symbol, "N/A", "N/A", "N/A")
    ELSE IF HasBoth(o.cur, o.prev)
    THEN Entry(name, symbol, PriceStr(o.cur),
               ChangeStr(Change(o.cur, o.prev)),
               FormatPercent(ChangePercent(o.cur, o.prev)))
    ELSE Entry(name, symbol, PriceStr(o.cur), "N/A", "N/A")

NoIndexData == <<[message |-> "No index data could be retrieved."]>>

\* Lines 92-97: the payload of the 'indices_update' event.
Payload(indices_data) ==
    IF Len(indices_data) # 0 THEN indices_data ELSE NoIndexData

\* ---------------------------------------------------- snapshot rows -----
\* Fault variant of StockRow: the sign test of the percent written `>= 0`.
StockRowFormatGE(symbol, o) ==
    IF ~o.ok
    THEN [Company |-> "Error", Symbol |-> symbol, Price |-> "N/A",
          Change |-> "N/A", Change_Numeric |-> NegInf]
         @@ ("Change %" :> "N/A")
    ELSE IF HasBoth(o.cur, o.prev)
    THEN [Company |-> IF Present(o.longName) THEN o.longName[1] ELSE "N/A",
          Symbol |-> symbol, Price |-> PriceStr(o.cur),
          Change |-> ChangeStr(Change(o.cur, o.prev)),
          ChangeP |-> FormatPercentGE(ChangePercent(o.cur, o.prev)),
          Change_Numeric |-> ChangePercent(o.cur, o.prev)]
    ELSE IF Present(o.cur)
    THEN [Company |-> IF Present(o.longName) THEN o.longName[1] ELSE "N/A",
          Symbol |-> symbol, Price |-> PriceStr(o.cur),
          Change |-> "N/A", ChangeP |-> "N/A", Change_Numeric |-> Zero]
    ELSE [Company |-> "N/A (Data Unavailable)",
          Symbol |-> symbol, Price |-> PriceStr(o.cur),
          Change |-> "N/A", ChangeP |-> "N/A", Change_Numeric |-> NegInf]

\* Fault variant of StockRow: the sort key is the absolute change.
StockRowKeyIsChange(symbol, o) ==
    IF ~o.ok
    THEN [Company |-> "Error", Symbol |-> symbol, Price |-> "N/A",
          Change |-> "N/A", Change_Numeric |-> NegInf]
         @@ ("Change %" :> "N/A")
    ELSE IF HasBoth(o.cur, o.prev)
    THEN [Company |-> IF Present(o.longName) THEN o.longName[1] ELSE "N/A",
          Symbol |-> symbol, Price |-> PriceStr(o.cur),
          Change |-> ChangeStr(Change(o.cur, o.prev)),
          ChangeP |-> FormatPercent(ChangePercent(o.cur, o.prev)),
          Change_Numeric |-> Change(o.cur, o.prev)]
    ELSE IF Present(o.cur)
    THEN [Company |-> IF Present(o.longName) THEN o.longName[1] ELSE "N/A",
          Symbol |-> symbol, Price |-> PriceStr(o.cur),
          Change |-> "N/A", ChangeP |-> "N/A", Change_Numeric |-> Zero]
    ELSE [Company |-> "N/A (Data Unavailable)",
          Symbol |-> symbol, Price |-> PriceStr(o.cur),
          Change |-> "N/A", ChangeP |-> "N/A", Change_Numeric |-> NegInf]

\* Lines 148-193: the dict appended to all_stock_data for one symbol.  The
\* dict of the except branch has the key 'Change %' where the others have
\* 'ChangeP'.
StockRow(symbol, o) ==
    IF ~o.ok
    THEN [Company |-> "Error", Symbol |-> symbol, Price |-> "N/A",
          Change |-> "N/A", Change_Numeric |-> NegInf]
         @@ ("Change %" :> "N/A")
    ELSE IF HasBoth(o.cur, o.prev)
    THEN [Company |-> IF Present(o.longName) THEN o.longName[1] ELSE "N/A",
          Symbol |-> symbol, Price |-> PriceStr(o.cur),
          Change |-> ChangeStr(Change(o.cur, o.prev)),
          ChangeP |-> FormatPercent(ChangePercent(o.cur, o.prev)),
          Change_Numeric |-> ChangePercent(o.cur, o.prev)]
    ELSE IF Present(o.cur)
    THEN [Company |-> IF Present(o.longName) THEN o.longName[1] ELSE "N/A",
          Symbol |-> symbol, Price |-> PriceStr(o.cur),
          Change |-> "N/A", ChangeP |-> "N/A", Change_Numeric |-> Zero]
    ELSE [Company |-> "N/A (Data Unavailable)",
          Symbol |-> symbol, Price |-> PriceStr(o.cur),
          Change |-> "N/A", ChangeP |-> "N/A", Change_Numeric |-> NegInf]

\* pd.DataFrame(list of dicts): one column per key that occurs in a dict,
\* and NaN where a dict has no such key.
DataFrame(rows) ==
    LET columns == UNION {DOMAIN rows[i] : i \in 1..Len(rows)}
    IN  [i \in 1..Len(rows) |->
            [k \in columns |-> IF k \in DOMAIN rows[i] THEN rows[i][k] ELSE "nan"]]

Reverse(s) == [i \in 1..Len(s) |-> s[Len(s) + 1 - i]]

\* Insertion of row r into the ascending sequence s, after the rows that are
\* not greater (numpy sorts arrays this short by insertion; it is stable).
RECURSIVE InsertAsc(_, _)
InsertAsc(r, s) ==
    IF Len(s) = 0 THEN <<r>>
    ELSE IF Less(r.Change_Numeric, Head(s).Change_Numeric) THEN <<r>> \o s
    ELSE <<Head(s)>> \o InsertAsc(r, Tail(s))

RECURSIVE SortAsc(_)
SortAsc(s) ==
    IF Len(s) = 0 THEN <<>>
    ELSE InsertAsc(s[Len(s)], SortAsc(SubSeq(s, 1, Len(s) - 1)))

\* Fault variant of SortValues: `ascending=False` left out.
SortValuesAsc(df) == SortAsc(df)

\* df.sort_values(by='Change_Numeric', ascending=False): pandas reverses the
\* rows, sorts ascending and reverses the result.
SortValues(df) == Reverse(SortAsc(Reverse(df)))

\* .drop(columns=['Change_Numeric']).to_dict(orient='records')
DropKey(df) ==
    [i \in 1..Len(df) |->
        [k \in (DOMAIN df[i]) \ {"Change_Numeric"} |-> df[i][k]]]

NoStockData == [message |-> "No stock data could be retrieved."]

\* Lines 195-200: the response of GET /stock.
Response(all_stock_data) ==
    IF Len(all_stock_data) # 0
    THEN [status |-> 200, array |-> TRUE,
          body |-> DropKey(SortValues(DataFrame(all_stock_data))),
          keys |-> [i \in 1..Len(all_stock_data) |->
                      SortValues(DataFrame(all_stock_data))[i].Change_Numeric]]
    ELSE [status |-> 500, array |-> FALSE, body |-> <<NoStockData>>,
          keys |-> <<>>]

\* ------------------------------------------------------------ state -----
VARIABLES
    thread_running,  \* the global flag of line 27
    tasks,           \* the tasks start_background_task has spawned, in order:
                     \* [pc, i, indices_data, fetched]: the position and the
                     \* locals of fetch_and_emit_indices, and what each fetch
                     \* of the current cycle did
    connected,       \* the sids of the clients connected to the socket server
    published,       \* <<payload>> of the last 'indices_update' emitted, or <<>>
    delivered,       \* the sids the last emit sent its payload to
    failed,          \* the sids the last emit could not send to
    req,             \* the current (pc = "fetch") or last (pc = "idle") GET
                     \* /stock request: [pc, i, all_stock_data, fetched]
    resp,            \* <<response>> of the last GET /stock, once it returned
    quote,           \* a raw quote, input of the transform
    shown            \* what the two transforms make of it:
                     \* [index |-> <<entry>>, stock |-> <<row>>], <<>> before

vars == <<thread_running, tasks, connected, published, delivered, failed,
          req, resp, quote, shown>>

Sids == 1..MaxSubs

Spawned == [pc |-> "spawned", i |-> 1, indices_data |-> <<>>, fetched |-> <<>>]

Cycle == [pc |-> "fetch", i |-> 1, indices_data |-> <<>>, fetched |-> <<>>]

IdleRequest == [pc |-> "idle", i |-> 1, all_stock_data |-> <<>>, fetched |-> <<>>]

Init ==
    /\ thread_running = FALSE
    /\ tasks = <<>>
    /\ connected = {}
    /\ published = <<>>
    /\ delivered = {}
    /\ failed = {}
    /\ req = IdleRequest
    /\ resp = <<>>
    /\ quote = Quote
    /\ shown = [index |-> <<>>, stock |-> <<>>]

\* ---------------------------------------------------- the scheduler ----
\* Fault variant of BlockingCalls: the interval sleep written time.sleep(15).
BlockingCallsTimeSleep == {"sleep"}

\* The positions at which a poller task waits without yielding the server's
\* one thread.  There is none: the interval sleep is eventlet.sleep (line
\* 100) and eventlet.monkey_patch() (lines 1-2) makes the sockets under
\* ticker.info cooperative, so a waiting task hands control to the hub.
BlockingCalls == {}

\* A handler can run: no poller task holds the thread.
HubFree == \A u \in DOMAIN tasks : tasks[u].pc \notin BlockingCalls

\* Task t can run: no other poller task holds the thread.
HubFreeFor(t) == \A u \in DOMAIN tasks \ {t} : tasks[u].pc \notin BlockingCalls

\* ---------------------------------------------------- socket handlers ---
\* socketio.start_background_task(target=fetch_and_emit_indices): the task
\* is scheduled; it runs its first statement when the scheduler switches to
\* it.
start_background_task ==
    /\ Len(tasks) < MaxTasks
    /\ tasks' = Append(tasks, Spawned)

\* Fault variant of handle_connect: the test written `if thread_running:`.
handle_connect_inverted(sid) ==
    /\ sid \notin connected
    /\ connected' = connected \cup {sid}
    /\ IF thread_running THEN start_background_task ELSE UNCHANGED tasks
    /\ UNCHANGED <<thread_running, published, delivered, failed, req, resp,
                   quote, shown>>

\* Lines 204-215.  The handler runs to its end without yielding.
handle_connect(sid) ==
    /\ HubFree
    /\ sid \notin connected
    /\ connected' = connected \cup {sid}
    /\ IF ~thread_running THEN start_background_task ELSE UNCHANGED tasks
    /\ UNCHANGED <<thread_running, published, delivered, failed, req, resp,
                   quote, shown>>

\* Fault variant of handle_disconnect: the poller is told to stop when the
\* last client leaves.
handle_disconnect_stop(sid) ==
    /\ sid \in connected
    /\ connected' = connected \ {sid}
    /\ thread_running' = (thread_running /\ connected' # {})
    /\ UNCHANGED <<tasks, published, delivered, failed, req, resp, quote, shown>>

\* Lines 217-224: the handler only prints; the server drops the sid.
handle_disconnect(sid) ==
    /\ HubFree
    /\ sid \in connected
    /\ connected' = connected \ {sid}
    /\ UNCHANGED <<thread_running, tasks, published, delivered, failed, req,
                   resp, quote, shown>>

\* ------------------------------------------------------ the poller ------
\* Lines 35-51: the task starts: thread_running = True, the while test, a
\* fresh indices_data, and the first fetch is issued (the task yields on
\* the network).
Start(t) ==
    /\ HubFreeFor(t)
    /\ tasks[t].pc = "spawned"
    /\ thread_running' = TRUE
    /\ tasks' = [tasks EXCEPT ![t] = Cycle]
    /\ UNCHANGED <<connected, published, delivered, failed, req, resp,
                   quote, shown>>

\* Fault variant of FetchReturn: the try around the whole for loop, so that a
\* fetch that raises ends the loop.
FetchReturnAbort(t, o) ==
    /\ tasks[t].pc = "fetch"
    /\ LET i == tasks[t].i
           data == Append(tasks[t].indices_data,
                          IndexEntry(index_symbols[i][1], index_symbols[i][2], o))
           seen == Append(tasks[t].fetched, o)
       IN  tasks' = [tasks EXCEPT ![t] =
                       IF i < Len(index_symbols) /\ o.ok
                       THEN [pc |-> "fetch", i |-> i + 1, indices_data |-> data,
                             fetched |-> seen]
                       ELSE [pc |-> "emit", i |-> i, indices_data |-> data,
                             fetched |-> seen]]
    /\ UNCHANGED <<thread_running, connected, published, delivered, failed,
                   req, resp, quote, shown>>

\* Fault variant of FetchReturn: the except branch appends nothing.
FetchReturnSkip(t, o) ==
    /\ tasks[t].pc = "fetch"
    /\ LET i == tasks[t].i
           data == IF o.ok
                   THEN Append(tasks[t].indices_data,
                               IndexEntry(index_symbols[i][1], index_symbols[i][2], o))
                   ELSE tasks[t].indices_data
           seen == Append(tasks[t].fetched, o)
       IN  tasks' = [tasks EXCEPT ![t] =
                       IF i < Len(index_symbols)
                       THEN [pc |-> "fetch", i |-> i + 1, indices_data |-> data,
                             fetched |-> seen]
                       ELSE [pc |-> "emit", i |-> i, indices_data |-> data,
                             fetched |-> seen]]
    /\ UNCHANGED <<thread_running, connected, published, delivered, failed,
                   req, resp, quote, shown>>

\* Lines 47-89: the fetch of symbol i returns or raises (outcome o); its
\* entry is appended and the next fetch is issued, or the for loop ends.
FetchReturn(t, o) ==
    /\ HubFreeFor(t)
    /\ tasks[t].pc = "fetch"
    /\ LET i == tasks[t].i
           data == Append(tasks[t].indices_data,
                          IndexEntry(index_symbols[i][1], index_symbols[i][2], o))
           seen == Append(tasks[t].fetched, o)
       IN  tasks' = [tasks EXCEPT ![t] =
                       IF i < Len(index_symbols)
                       THEN [pc |-> "fetch", i |-> i + 1, indices_data |-> data,
                             fetched |-> seen]
                       ELSE [pc |-> "emit", i |-> i, indices_data |-> data,
                             fetched |-> seen]]
    /\ UNCHANGED <<thread_running, connected, published, delivered, failed,
                   req, resp, quote, shown>>

\* Fault variant of Recipients: the sends stop at the first one that fails.
RecipientsUntilFailure(lost) ==
    {s \in connected : \A l \in lost : s < l}

\* socketio.emit(event, data) with no recipient: the server sends data to
\* every connected sid; a send that fails (lost: the connection is gone) is
\* dropped and the others go on.
Recipients(lost) == connected \ lost

\* Fault variant of Emit: the sleep of line 100 left out of the loop body;
\* the task is back at the emit without fetching.
EmitNoSleep(t, lost) ==
    /\ HubFreeFor(t)
    /\ tasks[t].pc = "emit"
    /\ lost \subseteq connected
    /\ published' = <<Payload(tasks[t].indices_data)>>
    /\ delivered' = Recipients(lost)
    /\ failed' = lost
    /\ tasks' = [tasks EXCEPT ![t].fetched = <<>>]
    /\ UNCHANGED <<thread_running, connected, req, resp, quote, shown>>

\* Lines 91-100: the payload is emitted and the task sleeps.
Emit(t, lost) ==
    /\ HubFreeFor(t)
    /\ tasks[t].pc = "emit"
    /\ lost \subseteq connected
    /\ published' = <<Payload(tasks[t].indices_data)>>
    /\ delivered' = Recipients(lost)
    /\ failed' = lost
    /\ tasks' = [tasks EXCEPT ![t].pc = "sleep"]
    /\ UNCHANGED <<thread_running, connected, req, resp, quote, shown>>

\* Lines 100, 43-51: eventlet.sleep(15) returns, the while test is made, and
\* the next cycle issues its first fetch (or the loop ends).
Wake(t) ==
    /\ HubFreeFor(t)
    /\ tasks[t].pc = "sleep"
    /\ tasks' = [tasks EXCEPT ![t] =
                   IF thread_running THEN Cycle ELSE [Cycle EXCEPT !.pc = "done"]]
    /\ UNCHANGED <<thread_running, connected, published, delivered, failed,
                   req, resp, quote, shown>>

\* ------------------------------------------------------ GET /stock ------
\* Fault variant of StockRequest: the route starts the poller as
\* handle_connect does.
StockRequestStartsPoller ==
    /\ HubFree
    /\ req.pc = "idle"
    /\ IF Len(symbols) = 0
       THEN /\ resp' = <<Response(<<>>)>>
            /\ req' = IdleRequest
       ELSE /\ req' = [IdleRequest EXCEPT !.pc = "fetch"]
            /\ resp' = <<>>
    /\ IF ~thread_running /\ Len(tasks) < MaxTasks
       THEN tasks' = Append(tasks, Spawned)
       ELSE UNCHANGED tasks
    /\ UNCHANGED <<thread_running, connected, published, delivered,
                   failed, quote, shown>>

\* Lines 126-150: the request arrives and the first fetch is issued.
StockRequest ==
    /\ HubFree
    /\ req.pc = "idle"
    /\ IF Len(symbols) = 0
       THEN /\ resp' = <<Response(<<>>)>>
            /\ req' = IdleRequest
       ELSE /\ req' = [IdleRequest EXCEPT !.pc = "fetch"]
            /\ resp' = <<>>
    /\ UNCHANGED <<thread_running, tasks, connected, published, delivered,
                   failed, quote, shown>>

\* Fault variant of StockFetchReturn: the except branch appends nothing.
StockFetchReturnSkip(o) ==
    /\ req.pc = "fetch"
    /\ LET rows == IF o.ok
                   THEN Append(req.all_stock_data, StockRow(symbols[req.i], o))
                   ELSE req.all_stock_data
           seen == Append(req.fetched, o)
       IN  IF req.i < Len(symbols)
           THEN /\ req' = [pc |-> "fetch", i |-> req.i + 1,
                           all_stock_data |-> rows, fetched |-> seen]
                /\ UNCHANGED resp
           ELSE /\ req' = [pc |-> "idle", i |-> req.i,
                           all_stock_data |-> rows, fetched |-> seen]
                /\ resp' = <<Response(rows)>>
    /\ UNCHANGED <<thread_running, tasks, connected, published, delivered,
                   failed, quote, shown>>

\* Lines 147-200: the fetch of symbols[i] returns or raises; its row is
\* appended; after the last symbol the response is built and returned.
StockFetchReturn(o) ==
    /\ HubFree
    /\ req.pc = "fetch"
    /\ LET rows == Append(req.all_stock_data, StockRow(symbols[req.i], o))
           seen == Append(req.fetched, o)
       IN  IF req.i < Len(symbols)
           THEN /\ req' = [pc |-> "fetch", i |-> req.i + 1,
                           all_stock_data |-> rows, fetched |-> seen]
                /\ UNCHANGED resp
           ELSE /\ req' = [pc |-> "idle", i |-> req.i,
                           all_stock_data |-> rows, fetched |-> seen]
                /\ resp' = <<Response(rows)>>
    /\ UNCHANGED <<thread_running, tasks, connected, published, delivered,
                   failed, quote, shown>>

\* -------------------------------------------- the transform, alone ------
\* Lines 56-79 applied to the quote.
TransformIndex ==
    /\ shown.index = <<>>
    /\ shown' = [shown EXCEPT !.index =
                    <<IndexEntry(index_symbols[1][1], index_symbols[1][2], quote)>>]
    /\ UNCHANGED <<thread_running, tasks, connected, published, delivered,
                   failed, req, resp, quote>>

\* Lines 152-182 applied to the quote.
TransformStock ==
    /\ shown.stock = <<>>
    /\ shown' = [shown EXCEPT !.stock = <<StockRow(symbols[1], quote)>>]
    /\ UNCHANGED <<thread_running, tasks, connected, published, delivered,
                   failed, req, resp, quote>>

\* ---------------------------------------------------- specifications ----
TaskIds == 1..Len(tasks)

\* The whole server; every fetch returns the same quote.
Next ==
    \/ \E sid \in Sids : handle_connect(sid)
    \/ \E sid \in Sids : handle_disconnect(sid)
    \/ \E t \in TaskIds : Start(t)
    \/ \E t \in TaskIds : FetchReturn(t, Quote)
    \/ \E t \in TaskIds, lost \in SUBSET connected : Emit(t, lost)
    \/ \E t \in TaskIds : Wake(t)
    \/ StockRequest
    \/ StockFetchReturn(Quote)

Spec == Init /\ [][Next]_vars

\* One client and the poller it starts, with every fetch outcome.
NextPoller ==
    \/ handle_connect(1)
    \/ \E t \in TaskIds : Start(t)
    \/ \E t \in TaskIds, o \in Outcomes : FetchReturn(t, o)
    \/ \E t \in TaskIds, lost \in SUBSET connected : Emit(t, lost)
    \/ \E t \in TaskIds : Wake(t)

SpecPoller == Init /\ [][NextPoller]_vars

\* GET /stock alone, with every fetch outcome.
NextSnapshot ==
    \/ StockRequest
    \/ \E o \in Outcomes : StockFetchReturn(o)

SpecSnapshot == Init /\ [][NextSnapshot]_vars

\* A step of poller task t: the spawned task starts, its fetch returns or
\* raises, its emit completes or its sleep ends.
PollerStep(t) ==
    /\ t \in TaskIds
    /\ \/ Start(t)
       \/ \E o \in CoarseOutcomes : FetchReturn(t, o)
       \/ \E lost \in SUBSET connected : Emit(t, lost)
       \/ Wake(t)

\* One client that connects, leaves and comes back, and the pollers.
NextOneClient ==
    \/ handle_connect(1)
    \/ handle_disconnect(1)
    \/ \E t \in TaskIds : PollerStep(t)

\* The scheduler keeps running the tasks that can run, every fetch returns
\* or raises and every sleep ends (it need not even be fair between two
\* pollers).
FairSpec ==
    Init /\ [][NextOneClient]_vars /\ WF_vars(\E t \in TaskIds : PollerStep(t))

\* Line 51: ticker.info never returns (the remote end accepts the request
\* and never answers). No statement of the loop bounds the call (no timeout
\* argument, no eventlet.Timeout), so the task has no step from here.
FetchHangs(t) ==
    /\ tasks[t].pc = "fetch"
    /\ tasks' = [tasks EXCEPT ![t].pc = "hung"]
    /\ UNCHANGED <<thread_running, connected, published, delivered, failed,
                   req, resp, quote, shown>>

\* One client and the pollers, with fetches that return, raise or hang.
NextHang ==
    \/ NextOneClient
    \/ \E t \in TaskIds : FetchHangs(t)

\* The scheduler is fair to every poller task: whatever a task can do, it
\* eventually does.
HangSpec ==
    Init /\ [][NextHang]_vars /\ \A t \in 1..MaxTasks : WF_vars(PollerStep(t))

\* The transform alone, on one raw quote drawn at the start.
Prices == {248000, 249990, 249996, 250000, 250004, 250010, 252000}

QuoteInputs ==
    {FetchError}
    \cup {Info(c, p, n) :
            c \in {<<>>} \cup {<<x>> : x \in Prices},
            p \in {<<>>, <<0>>, <<100000>>, <<250000>>},
            n \in {<<>>, <<"Co">>}}

InitTransform ==
    /\ thread_running = FALSE
    /\ tasks = <<>>
    /\ connected = {}
    /\ published = <<>>
    /\ delivered = {}
    /\ failed = {}
    /\ req = IdleRequest
    /\ resp = <<>>
    /\ quote \in QuoteInputs
    /\ shown = [index |-> <<>>, stock |-> <<>>]

NextTransform ==
    \/ TransformIndex
    \/ TransformStock

SpecTransform == InitTransform /\ [][NextTransform]_vars

\* ------------------------------------------------------------ claims ----
AllFailed(fetched) == \A i \in 1..Len(fetched) : ~fetched[i].ok

\* The tasks whose loop has started (thread_running = True was executed).
Loops == {t \in TaskIds : tasks[t].pc # "spawned"}

\* C1: at most one fetch_and_emit_indices loop is ever started, whatever the
\* interleaving of the connect events.
C1_AtMostOneLoop == Cardinality(Loops) <= 1

\* C2: once a client has connected (which, the poller being idle, spawns the
\* task), the poller eventually is running and has published a batch.
C2_ConnectLeadsToPublish ==
    (connected # {}) ~> (thread_running /\ published # <<>>)

C2_Witness == connected # {} /\ thread_running /\ published # <<>>

\* The payload the task that has just emitted (pc = "sleep") published is
\* its indices_data when this holds.
IsBatchOf(payload, t) ==
    /\ Len(payload) = Len(index_symbols)
    /\ \A i \in 1..Len(index_symbols) :
          /\ DOMAIN payload[i] = {"Name", "Symbol", "Price", "Change", "Change %"}
          /\ payload[i].Name = index_symbols[i][1]
          /\ payload[i].Symbol = index_symbols[i][2]

AllNA(e) == e.Price = "N/A" /\ e.Change = "N/A" /\ e["Change %"] = "N/A"

\* C3: the batch a poll cycle publishes has one entry per basket symbol, in
\* basket order; the entry of a symbol whose fetch failed is all 'N/A', and
\* the entry of a symbol whose fetch succeeded is what the transform makes of
\* its own quote, whatever the other fetches did.
C3_FailureIsolation ==
    \A t \in TaskIds :
        tasks[t].pc = "sleep" =>
            /\ published # <<>>
            /\ IsBatchOf(published[1], t)
            /\ Len(tasks[t].fetched) = Len(index_symbols)
            /\ \A i \in 1..Len(index_symbols) :
                  LET o == tasks[t].fetched[i]
                      e == published[1][i]
                  IN  /\ e = IndexEntry(index_symbols[i][1], index_symbols[i][2], o)
                      /\ ~o.ok => AllNA(e)
                      /\ o.ok =>
                           /\ e.Price = PriceStr(o.cur)
                           /\ e.Price # "N/A"
                           /\ (e.Change = "N/A") = ~HasBoth(o.cur, o.prev)
                           /\ (e["Change %"] = "N/A") = ~HasBoth(o.cur, o.prev)

C3_Witness ==
    \E t \in TaskIds :
        /\ tasks[t].pc = "sleep"
        /\ tasks[t].fetched[1].ok /\ HasBoth(tasks[t].fetched[1].cur, tasks[t].fetched[1].prev)
        /\ ~tasks[t].fetched[2].ok
        /\ AllNA(published[1][2])
        /\ published[1][1]["Change %"] = "+0.8%"

IsMarker(payload) == Len(payload) = 1 /\ DOMAIN payload[1] = {"message"}

\* C4 as stated: a cycle in which every fetch failed publishes the single
\* "no data" marker entry.
C4_Original ==
    \A t \in TaskIds :
        (tasks[t].pc = "sleep" /\ AllFailed(tasks[t].fetched)) =>
            (published # <<>> /\ IsMarker(published[1]))

\* C4, amended: a cycle in which every fetch failed publishes one all-'N/A'
\* entry per basket symbol, in basket order; the marker is never published.
C4_AllFailedBatch ==
    /\ \A t \in TaskIds :
          (tasks[t].pc = "sleep" /\ AllFailed(tasks[t].fetched)) =>
              /\ published # <<>>
              /\ IsBatchOf(published[1], t)
              /\ \A i \in 1..Len(index_symbols) : AllNA(published[1][i])
    /\ published # <<>> => ~IsMarker(published[1])

C4_Witness ==
    \E t \in TaskIds :
        /\ tasks[t].pc = "sleep"
        /\ Len(tasks[t].fetched) = Len(index_symbols)
        /\ AllFailed(tasks[t].fetched)

\* A GET /stock has returned, and req holds what it fetched.
Returned == req.pc = "idle" /\ resp # <<>>

\* C5 as stated: when every fetch of the snapshot fails, the response is the
\* empty-result error (500, a message object), not an array.
C5_Original ==
    (Returned /\ AllFailed(req.fetched)) =>
        (resp[1].status = 500 /\ ~resp[1].array)

\* C5, amended: when every fetch fails, the response is 200 with an array of
\* one error entry per basket symbol; the 500 error is returned exactly when
\* no row was collected.
C5_AllFailedArray ==
    Returned =>
        /\ (resp[1].status = 500) = (Len(req.all_stock_data) = 0)
        /\ (resp[1].status = 500) = ~resp[1].array
        /\ (AllFailed(req.fetched) /\ Len(symbols) > 0) =>
              /\ resp[1].status = 200
              /\ Len(resp[1].body) = Len(symbols)
              /\ \A i \in 1..Len(symbols) :
                    /\ resp[1].body[i].Company = "Error"
                    /\ resp[1].body[i].Price = "N/A"
                    /\ resp[1].body[i].Symbol = symbols[i]

C5_Witness ==
    Returned /\ Len(req.fetched) = Len(symbols) /\ Len(symbols) > 0
             /\ AllFailed(req.fetched)

Unavailable(e) == e.Price \in {"N/A", "None"}

\* C6: the returned array is non-increasing in Change_Numeric, and every
\* entry without a price comes after every entry with one.
C6_SortingLaw ==
    (Returned /\ resp[1].array) =>
        \A i, j \in 1..Len(resp[1].body) :
            i < j =>
                /\ ~Less(resp[1].keys[i], resp[1].keys[j])
                /\ ~(Unavailable(resp[1].body[i]) /\ ~Unavailable(resp[1].body[j]))

\* The first fetch failed, the second gave a loss and the third a gain: the
\* response has them in the opposite order.
C6_Witness ==
    /\ Returned /\ resp[1].array
    /\ Len(req.fetched) >= 3
    /\ ~req.fetched[1].ok
    /\ req.all_stock_data[2].Change_Numeric = Float(TRUE, 80)
    /\ req.all_stock_data[3].Change_Numeric = Float(FALSE, 80)
    /\ resp[1].body[1].Symbol = symbols[3]
    /\ resp[1].body[2].Symbol = symbols[2]
    /\ Unavailable(resp[1].body[Len(resp[1].body)])

\* The sign a formatted percent string carries: "+", "-" or "" (none).
SignOf(str) ==
    IF SubSeq(str, 1, 1) = "+" THEN "+"
    ELSE IF SubSeq(str, 1, 1) = "-" THEN "-" ELSE ""

\* The formatted percent strings the two transforms have made of the quote.
Formatted ==
    {shown.index[i]["Change %"] : i \in 1..Len(shown.index)}
    \cup {shown.stock[i].ChangeP : i \in 1..Len(shown.stock)}

Applicable == quote.ok /\ HasBoth(quote.cur, quote.prev)

\* C7 as stated: the sign of the formatted percent string is the sign of the
\* change round(currentPrice - previousClose, 2).
C7_Original ==
    Applicable =>
        \A str \in Formatted :
            LET c == Change(quote.cur, quote.prev)
            IN  SignOf(str) = (IF c.mag = 0 THEN ""
                               ELSE IF c.neg THEN "-" ELSE "+")

\* C7, amended: the sign of the formatted percent string is the sign of the
\* rounded percent change, not of the change: "+" exactly when it is > 0, "-"
\* exactly when it is negative or negative zero, none otherwise; it is never
\* the opposite of the sign of currentPrice - previousClose (previousClose > 0).
C7_SignOfRoundedPercent ==
    Applicable =>
        \A str \in Formatted :
            LET cp == ChangePercent(quote.cur, quote.prev)
                d == quote.cur[1] - quote.prev[1]
            IN  /\ SignOf(str) = (IF Positive(cp) THEN "+"
                                  ELSE IF cp.neg THEN "-" ELSE "")
                /\ (SignOf(str) = "+") => d > 0
                /\ (SignOf(str) = "-") => d < 0
                /\ (d = 0) => SignOf(str) = ""

\* A positive change whose percent rounds to 0.0, formatted by both.
C7_Witness ==
    /\ Applicable
    /\ Len(shown.index) = 1 /\ Len(shown.stock) = 1
    /\ Positive(Change(quote.cur, quote.prev))
    /\ Formatted = {"0.0%"}

\* C8 (snapshot half): every entry of the returned array has the formatted
\* percent field ChangeP, which is "N/A" exactly when Change is, and else a
\* percent string.
C8_FormattedOrNA ==
    (Returned /\ resp[1].array) =>
        \A i \in 1..Len(resp[1].body) :
            LET e == resp[1].body[i]
            IN  /\ "ChangeP" \in DOMAIN e
                /\ (e.ChangeP = "N/A") = (e.Change = "N/A")
                /\ e.ChangeP # "nan"

\* A step in which task t emits.
Emits(t) == tasks[t].pc = "emit" /\ tasks'[t].pc = "sleep"

C10_StaysRunning ==
    [][/\ thread_running => thread_running'
       /\ (connected' # connected /\ connected' \subseteq connected) =>
             UNCHANGED <<thread_running, tasks>>]_vars

\* The poller runs, a client got a batch, every client has left and a GET
\* /stock has returned.
C10_Witness ==
    /\ thread_running
    /\ connected = {}
    /\ delivered # {}
    /\ Returned

\* A step in which some task emits.
SomeEmit == \E t \in TaskIds, lost \in SUBSET connected : Emit(t, lost)

\* C11 as stated: when from some point on no client is connected, the
\* poller goes back to not running and stays there.
C11_Original == <>[](connected = {}) => <>[](~thread_running)

\* C11: handle_disconnect only prints, so the poller is not torn down when
\* the last client leaves: once it runs, it goes on publishing a batch
\* every interval, also when from some point on no client is connected.
C11_KeepsPublishing ==
    (<>thread_running /\ <>[](connected = {})) => []<><<SomeEmit>>_vars

\* The poller runs, nobody is connected, and the last batch went to nobody.
C11_Witness ==
    /\ thread_running
    /\ connected = {}
    /\ published # <<>>
    /\ delivered = {}
    /\ failed = {}
    /\ \E t \in TaskIds : tasks[t].pc = "sleep"

SnapshotFields == {"Company", "Symbol", "Price", "Change", "ChangeP"}

\* C12: the response of GET /stock is an array of one element per basket
\* symbol or the single error object; every element of the array has
\* exactly the fields Company, Symbol, Price, Change, ChangeP, none of them
\* a NaN fill, the elements of failed fetches included.
C12_UniformFields ==
    Returned =>
        IF resp[1].array
        THEN /\ Len(resp[1].body) = Len(symbols)
             /\ \A i \in 1..Len(resp[1].body) :
                   LET e == resp[1].body[i]
                   IN  /\ DOMAIN e = SnapshotFields
                       /\ \A k \in DOMAIN e : e[k] # "nan"
        ELSE resp[1].body = <<NoStockData>>

\* C13: every poll cycle that starts eventually publishes its batch, also
\* when a fetch never returns.
C13_CycleEventuallyPublishes ==
    \A t \in 1..MaxTasks :
        (t \in TaskIds /\ tasks[t].pc = "fetch" /\ tasks[t].fetched = <<>>)
            ~> (t \in TaskIds /\ tasks[t].pc = "sleep")

\* C14: the sort key of a snapshot row is the change percent when current
\* price and previous close are present and the previous close is not 0,
\* 0 when the current price is present and the previous close is missing
\* or 0, and -infinity when the current price is absent or the fetch
\* failed; 252.0 against 250.0 gives change 2.0, '+0.8%' and key 0.8.
C14_SortKey ==
    shown.stock # <<>> =>
        LET r == shown.stock[1]
            key == r.Change_Numeric
            cur == quote.cur
            prev == quote.prev
            usable == Present(prev) /\ prev[1] # 0
        IN  /\ (quote.ok /\ Present(cur) /\ usable) =>
                  /\ key = ChangePercent(cur, prev)
                  /\ ~key.inf
                  /\ r.ChangeP = FormatPercent(key)
            /\ (quote.ok /\ Present(cur) /\ ~usable) => key = Zero
            /\ (~quote.ok \/ ~Present(cur)) => key = NegInf
            /\ (quote.ok /\ cur = <<252000>> /\ prev = <<250000>>) =>
                  /\ r.Change = "2.0"
                  /\ r.ChangeP = "+0.8%"
                  /\ key = Float(FALSE, 80)
            /\ (quote.ok /\ cur = <<248000>> /\ prev = <<250000>>) =>
                  /\ r.Change = "-2.0"
                  /\ r.ChangeP = "-0.8%"
                  /\ key = Float(TRUE, 80)

\* The row of the quote 252.0 / 250.0 has been built.
C14_Witness ==
    /\ shown.stock # <<>>
    /\ quote.ok
    /\ quote.cur = <<252000>>
    /\ quote.prev = <<250000>>
    /\ shown.stock[1].Change_Numeric = Float(FALSE, 80)

C16_FetchAllEmitSleep ==
    [][/\ \A t \in TaskIds :
             /\ Emits(t) =>
                   /\ Len(tasks[t].fetched) = Len(index_symbols)
                   /\ Len(tasks[t].indices_data) = Len(index_symbols)
                   /\ published' = <<Payload(tasks[t].indices_data)>>
             /\ (tasks[t].pc = "emit" /\ tasks'[t] # tasks[t]) =>
                   tasks'[t].pc = "sleep"
             /\ (tasks'[t].pc = "emit" /\ tasks[t].pc # "emit") =>
                   /\ tasks[t].pc = "fetch"
                   /\ tasks[t].i = Len(index_symbols)
             /\ (tasks[t].pc = "sleep" /\ tasks'[t] # tasks[t]) =>
                   /\ tasks'[t].pc \in {"fetch", "done"}
                   /\ tasks'[t].i = 1
                   /\ tasks'[t].fetched = <<>>
                   /\ tasks'[t].indices_data = <<>>
       /\ (published' # published \/ delivered' # delivered \/ failed' # failed) =>
             \E t \in TaskIds : Emits(t)]_vars

\* A loop that has published and slept is about to publish the batch of its
\* next cycle, in which a fetch failed.
C16_Witness ==
    \E t \in TaskIds :
        /\ tasks[t].pc = "emit"
        /\ published # <<>>
        /\ \E i \in 1..Len(tasks[t].fetched) : ~tasks[t].fetched[i].ok
        /\ published[1] # Payload(tasks[t].indices_data)

\* A step of the handling of a GET /stock: its arrival or the return of
\* one of its fetches.
SnapshotStep == req' # req \/ resp' # resp

\* C17: no step of the handling of a GET /stock changes thread_running,
\* spawns or moves a poller task, or publishes a batch (nor does it touch
\* the set of connected clients).
C17_SnapshotFrame ==
    [][SnapshotStep =>
          UNCHANGED <<thread_running, tasks, connected, published, delivered,
                      failed>>]_vars

\* A GET /stock has been handled to its end and no poller was ever started.
C17_Witness ==
    /\ Returned
    /\ resp[1].array
    /\ ~thread_running
    /\ tasks = <<>>
    /\ published = <<>>

\* The formatted percent the snapshot computed for a row: the value under
\* 'ChangeP', or under 'Change %' in the row of the except branch.
PercentOf(row) ==
    IF "ChangeP" \in DOMAIN row THEN row.ChangeP ELSE row["Change %"]

\* C18: for the same raw quote (fetch returned or raised, current price
\* present or not, previous close present, 0 or missing) the Change and the
\* formatted percent of the poller's entry equal the Change and the
\* formatted percent of the snapshot's row.
C18_SameTransform ==
    (shown.index # <<>> /\ shown.stock # <<>>) =>
        /\ shown.index[1].Change = shown.stock[1].Change
        /\ shown.index[1]["Change %"] = PercentOf(shown.stock[1])

\* Both transforms have been applied to a quote whose change is exactly 0.
C18_Witness ==
    /\ shown.index # <<>>
    /\ shown.stock # <<>>
    /\ quote.ok
    /\ HasBoth(quote.cur, quote.prev)
    /\ shown.index[1].Change = "0.0"
    /\ shown.stock[1].ChangeP = "0.0%"

\* The loops start_background_task has started that have not ended.
Alive == {t \in TaskIds : tasks[t].pc # "done"}

\* C19: thread_running is True exactly when one loop has been started and
\* has not ended; in particular no loop has been started while the flag is
\* still False.
C19_FlagReflectsLoop ==
    /\ thread_running <=> (Cardinality(Alive) = 1)
    /\ ~thread_running => Alive = {}
====
